---- MODULE Spec2Model ----
(***************************************************************************)
(* A model of src/youtube_shorts_analyzer.py: the engagement scoring of    *)
(* YouTubeShortsAnalyzer.calculate_engagement_metrics and the collection   *)
(* loop, channel deduplication and ranking of analyze_shorts.              *)
(*                                                                         *)
(* Numbers.  Python floats are modelled by exact integer arithmetic on     *)
(* scaled values: a normalized sub-score is an integer number of           *)
(* millionths (Micro), a rounded metric is a Dec2 record (sign, whole      *)
(* part, hundredths) and performance_score is an integer number of         *)
(* hundredths.  Quotients are computed digit by digit so that every        *)
(* intermediate value stays below 2^31.  math.log10 is computed by the     *)
(* squaring algorithm on a 7-digit mantissa; its error is below one        *)
(* millionth.  round(x, 2) is round-half-to-even on the exact quotient.    *)
(* On every input of the sets below the operator                           *)
(* calculate_engagement_metrics returns the six values the Python function *)
(* returns (view counts such as 10^7, where the score lies within 10^-6 of *)
(* a rounding boundary, are left out of the sets for that reason).         *)
(*                                                                         *)
(* Time.  The clock and published_at are integers counting ticks, with     *)
(* TicksPerHour ticks to the hour; published_at stands for the datetime    *)
(* that strptime parses out of the "%Y-%m-%dT%H:%M:%SZ" string.            *)
(***************************************************************************)
EXTENDS Integers, Sequences, FiniteSets, TLC

(***************************************************************************)
(* Program constants                                                       *)
(***************************************************************************)
QuotaSearch == 100
QuotaVideo == 1
max_quota == 10000
WeightViews == 40
WeightEngagement == 30
WeightVelocity == 30
ViewsLogCap == 8
EngagementCap == 20
VelocityCap == 10000
Percent == 100

(***************************************************************************)
(* Bounds of the model                                                     *)
(***************************************************************************)
TicksPerHour == 2
LogBits == 24

Micro == 10^6
Nano == 10^9
Mantissa == 10^7
HalfMantissa == 10^4

Abs(x) == IF x < 0 THEN -x ELSE x
Min(a, b) == IF a < b THEN a ELSE b
Max(a, b) == IF a > b THEN a ELSE b

(***************************************************************************)
(* Fixed-point helpers                                                     *)
(***************************************************************************)
\* The first k decimal digits of rem/den (0 <= rem < den), as an integer.
RECURSIVE FracDigits(_, _, _)
FracDigits(rem, den, k) ==
    IF k = 0 THEN 0
    ELSE ((10 * rem) \div den) * 10^(k - 1) + FracDigits((10 * rem) % den, den, k - 1)

\* num/den in millionths, truncated towards zero (den > 0).
QuotMicro(num, den) ==
    LET a == Abs(num)
        m == (a \div den) * Micro + FracDigits(a % den, den, 6)
    IN  IF num < 0 THEN -m ELSE m

\* min(num/den, 1) in millionths (den > 0): the capped sub-scores.
CappedMicro(num, den) ==
    IF num >= den THEN Micro ELSE QuotMicro(num, den)

\* round(num/den, 2): a Dec2 record, rounding half to even (den > 0).
Round2(num, den) ==
    LET a     == Abs(num)
        whole == a \div den
        r0    == a % den
        d1    == (10 * r0) \div den
        r1    == (10 * r0) % den
        d2    == (10 * r1) \div den
        r2    == (10 * r1) % den
        cents == 10 * d1 + d2
        up    == (2 * r2 > den) \/ (2 * r2 = den /\ cents % 2 = 1)
        c     == IF up THEN cents + 1 ELSE cents
        w     == IF c = 100 THEN whole + 1 ELSE whole
        cc    == IF c = 100 THEN 0 ELSE c
    IN  [neg |-> (num < 0) /\ (w # 0 \/ cc # 0), whole |-> w, cents |-> cc]

Dec2Zero == [neg |-> FALSE, whole |-> 0, cents |-> 0]
Dec2Of(w, c) == [neg |-> FALSE, whole |-> w, cents |-> c]

\* A Dec2 as a signed number of hundredths (for values that fit).
Hundredths(d) == (IF d.neg THEN -1 ELSE 1) * (d.whole * 100 + d.cents)

(***************************************************************************)
(* math.log10                                                              *)
(***************************************************************************)
\* The number of decimal digits of n, less one: floor(log10(n)) for n >= 1.
RECURSIVE Log10Floor(_)
Log10Floor(n) == IF n < 10 THEN 0 ELSE 1 + Log10Floor(n \div 10)

\* y*y/Mantissa for a mantissa y in [Mantissa, 10*Mantissa), without overflow.
SqFix(y) ==
    LET a == y \div HalfMantissa
        b == y % HalfMantissa
    IN  10 * a * a + ((2 * a * b + ((b * b) \div HalfMantissa)) \div 1000)

\* The binary digits k..LogBits of log10(y/Mantissa), in billionths.
RECURSIVE LogFrac(_, _)
LogFrac(y, k) ==
    IF k > LogBits THEN 0
    ELSE LET sq == SqFix(y)
         IN  IF sq >= 10 * Mantissa
             THEN (Nano \div 2^k) + LogFrac(sq \div 10, k + 1)
             ELSE LogFrac(sq, k + 1)

\* math.log10(n) in millionths, for n >= 1.
Log10Micro(n) ==
    LET d == Log10Floor(n)
        y == IF d <= 7 THEN n * 10^(7 - d) ELSE n \div 10^(d - 7)
    IN  d * Micro + (LogFrac(y, 1) \div 1000)

(***************************************************************************)
(* calculate_engagement_metrics                                            *)
(***************************************************************************)
\* hours_since_pub with the floor put on the elapsed time before it is turned
\* into hours: max(time_since_pub.total_seconds(), 1) / 3600.
hours_floor_before_division(published_at, utcnow) == Max(utcnow - published_at, 1)

\* hours_since_pub, in ticks: max(time_since_pub, 1 hour).
hours_since_pub(published_at, utcnow) == Max(utcnow - published_at, TicksPerHour)

\* normalized_views with the logarithm truncated to an integer:
\* min(int(math.log10(view_count + 1)) / 8, 1).
normalized_views_truncated(view_count) ==
    Min((Log10Floor(view_count + 1) * Micro) \div ViewsLogCap, Micro)

\* min(math.log10(view_count + 1) / 8, 1), in millionths (view_count >= 0).
normalized_views(view_count) ==
    Min(Log10Micro(view_count + 1) \div ViewsLogCap, Micro)

\* normalized_engagement without the division by the cap:
\* min(engagement_rate, 20).
normalized_engagement_undivided(view_count, total_engagement) ==
    IF total_engagement < 0
    THEN QuotMicro(total_engagement * (Percent \div EngagementCap), view_count)
    ELSE IF total_engagement * (Percent \div EngagementCap) >= view_count
         THEN EngagementCap * Micro
         ELSE QuotMicro(total_engagement * Percent, view_count)

\* min(engagement_rate / 20, 1), in millionths (view_count > 0), where
\* engagement_rate = total_engagement / view_count * 100.
normalized_engagement(view_count, total_engagement) ==
    IF total_engagement < 0
    THEN QuotMicro(total_engagement * (Percent \div EngagementCap), view_count)
    ELSE CappedMicro(total_engagement * (Percent \div EngagementCap), view_count)

\* min(avg_views_per_hour / 10000, 1), in millionths (view_count > 0), where
\* avg_views_per_hour = view_count / hours_since_pub and hours is in ticks.
normalized_velocity(view_count, hours) ==
    CappedMicro(view_count * TicksPerHour, hours * VelocityCap)

\* performance_score with the weights of views and engagement exchanged.
performance_score_weights_swapped(nv, ne, nvel) ==
    Hundredths(Round2(WeightEngagement * nv + WeightViews * ne + WeightVelocity * nvel,
                      Micro))

\* round((0.4 * nv + 0.3 * ne + 0.3 * nvel) * 100, 2), in hundredths.
performance_score(nv, ne, nvel) ==
    Hundredths(Round2(WeightViews * nv + WeightEngagement * ne + WeightVelocity * nvel,
                      Micro))

ZeroMetrics ==
    [kind |-> "metrics",
     engagement_rate |-> Dec2Zero,
     likes_to_views_ratio |-> Dec2Zero,
     comments_to_views_ratio |-> Dec2Zero,
     avg_views_per_hour |-> Dec2Zero,
     total_engagement |-> 0,
     performance_score |-> 0]

\* What a call that raises returns to its caller: no metrics.
Raised(exc) ==
    [kind |-> exc,
     engagement_rate |-> Dec2Zero,
     likes_to_views_ratio |-> Dec2Zero,
     comments_to_views_ratio |-> Dec2Zero,
     avg_views_per_hour |-> Dec2Zero,
     total_engagement |-> 0,
     performance_score |-> 0]

\* calculate_engagement_metrics with total_engagement computed before the
\* zero-view guard and returned by it.
calculate_total_before_guard(view_count, like_count, comment_count, published_at, utcnow) ==
    IF view_count = 0
    THEN [ZeroMetrics EXCEPT !.total_engagement = like_count + comment_count]
    ELSE IF view_count + 1 <= 0 THEN Raised("ValueError")
    ELSE LET hours == hours_since_pub(published_at, utcnow)
             total_engagement == like_count + comment_count
         IN  [kind |-> "metrics",
              engagement_rate |-> Round2(total_engagement * Percent, view_count),
              likes_to_views_ratio |-> Round2(like_count * Percent, view_count),
              comments_to_views_ratio |-> Round2(comment_count * Percent, view_count),
              avg_views_per_hour |-> Round2(view_count * TicksPerHour, hours),
              total_engagement |-> total_engagement,
              performance_score |->
                  performance_score(normalized_views(view_count),
                                    normalized_engagement(view_count, total_engagement),
                                    normalized_velocity(view_count, hours))]

\* calculate_engagement_metrics with comments_to_views_ratio taken against
\* avg_views_per_hour instead of view_count.
calculate_comments_per_hourly_views(view_count, like_count, comment_count, published_at, utcnow) ==
    IF view_count = 0 THEN ZeroMetrics
    ELSE IF view_count + 1 <= 0 THEN Raised("ValueError")
    ELSE LET hours == hours_since_pub(published_at, utcnow)
             total_engagement == like_count + comment_count
         IN  [kind |-> "metrics",
              engagement_rate |-> Round2(total_engagement * Percent, view_count),
              likes_to_views_ratio |-> Round2(like_count * Percent, view_count),
              comments_to_views_ratio |->
                  Round2(comment_count * Percent * hours, view_count * TicksPerHour),
              avg_views_per_hour |-> Round2(view_count * TicksPerHour, hours),
              total_engagement |-> total_engagement,
              performance_score |->
                  performance_score(normalized_views(view_count),
                                    normalized_engagement(view_count, total_engagement),
                                    normalized_velocity(view_count, hours))]

\* The call made when the clock reads utcnow.  A view_count below zero makes
\* math.log10(view_count + 1) raise ValueError (math domain error).
calculate_engagement_metrics(view_count, like_count, comment_count, published_at, utcnow) ==
    IF view_count = 0 THEN ZeroMetrics
    ELSE IF view_count + 1 <= 0 THEN Raised("ValueError")
    ELSE LET hours == hours_since_pub(published_at, utcnow)
             total_engagement == like_count + comment_count
         IN  [kind |-> "metrics",
              engagement_rate |-> Round2(total_engagement * Percent, view_count),
              likes_to_views_ratio |-> Round2(like_count * Percent, view_count),
              comments_to_views_ratio |-> Round2(comment_count * Percent, view_count),
              avg_views_per_hour |-> Round2(view_count * TicksPerHour, hours),
              total_engagement |-> total_engagement,
              performance_score |->
                  performance_score(normalized_views(view_count),
                                    normalized_engagement(view_count, total_engagement),
                                    normalized_velocity(view_count, hours))]

(***************************************************************************)
(* Input sets                                                              *)
(***************************************************************************)
\* Ten hours, in ticks: the clock's first reading.
TenHours == 10 * TicksPerHour

\* Clock readings: ten hours, ten and a fraction, and more than eleven hours
\* after time 0.
ClockTimes == {TenHours, TenHours + 1, TenHours + TicksPerHour + 1}

\* published_at: ten hours before the first clock reading, and equal to it.
PubTimes == {0, TenHours}

ViewCounts == {0, 1, 100, 1000, 1000000, 5000000, 99999999, 120000000}
LikeCounts == {0, 10, 50000, 20000000}
CommentCounts == {0, 3, 5000}

\* Inputs that may break the preconditions: negative counts, and a
\* published_at that is one tick after the second clock reading.
AnyPubTimes == {0, TenHours + 2}
AnyViewCounts == {-1, 100, 1000000}
AnyLikeCounts == {-10, 0, 10}
AnyCommentCounts == {-3, 0}

(***************************************************************************)
(* The YouTube Data API as analyze_shorts sees it                          *)
(***************************************************************************)
MaxItems == 3

Channels == {"UC_a", "UC_b", "UC_c"}

\* A counter of the statistics object is a string of decimal digits; Absent
\* stands for a key the object does not hold.
Absent == <<>>
ViewStrings == {Absent, <<1, 0, 0, 0>>}
LikeStrings == {Absent, <<1, 0>>}
CommentStrings == {Absent, <<3>>}

\* int(s) for a string of decimal digits.
RECURSIVE ParseInt(_)
ParseInt(s) ==
    IF Len(s) = 0 THEN 0
    ELSE 10 * ParseInt(SubSeq(s, 1, Len(s) - 1)) + s[Len(s)]

\* int(statistics.get(key, 0))
GetCount(statistics, key) ==
    IF statistics[key] = Absent THEN 0 ELSE ParseInt(statistics[key])

NoStatistics == [viewCount |-> Absent, likeCount |-> Absent, commentCount |-> Absent]

\* The responses of videos().list: items empty ("noitems"), an item without
\* the statistics object ("nostats"), or an item with statistics ("ok").
OkResponses ==
    {[kind |-> "ok", statistics |-> st, publishedAt |-> 0] :
        st \in [viewCount : ViewStrings, likeCount : LikeStrings,
                commentCount : CommentStrings]}
NoItemsResponse == [kind |-> "noitems", statistics |-> NoStatistics, publishedAt |-> 0]
NoStatsResponse == [kind |-> "nostats", statistics |-> NoStatistics, publishedAt |-> 0]

\* The items of a search response: video i of the response, with its channel.
SeqsUpTo(S, n) == UNION {[1..k -> S] : k \in 0..n}
SearchResponses ==
    {[i \in 1..Len(chs) |-> [videoId |-> i, channelId |-> chs[i]]] :
        chs \in SeqsUpTo(Channels, MaxItems)}

(***************************************************************************)
(* State                                                                   *)
(***************************************************************************)
VARIABLES
    clock,           \* what datetime.utcnow() returns, in ticks
    pc,              \* analyze_shorts: "idle", "loop", "break", "returned"
    quota_used,      \* self.quota_used
    search_items,    \* search_response.get('items', [])
    idx,             \* the position of the for loop in search_items
    seen_channels,   \* seen_channels
    shorts_data,     \* shorts_data, in the order the loop appended
    video_responses, \* the videos().list responses received, by video
    returned,        \* what analyze_shorts returned
    arg_likes,       \* like_count of the direct calls
    arg_comments,    \* comment_count of the direct calls
    arg_published,   \* published_at of the direct calls
    calls            \* the last two direct calls and their results

vars == <<clock, pc, quota_used, search_items, idx, seen_channels, shorts_data,
          video_responses, returned, arg_likes, arg_comments, arg_published, calls>>

pipeline_vars == <<pc, quota_used, search_items, idx, seen_channels, shorts_data,
                   video_responses, returned>>
call_vars == <<arg_likes, arg_comments, arg_published, calls>>

Pending == [kind |-> "pending", list |-> <<>>]
ReturnedNone == [kind |-> "None", list |-> <<>>]
ReturnedList(l) == [kind |-> "list", list |-> l]

InitPipeline ==
    /\ pc = "idle"
    /\ quota_used = 0
    /\ search_items = <<>>
    /\ idx = 0
    /\ seen_channels = {}
    /\ shorts_data = <<>>
    /\ video_responses = <<>>
    /\ returned = Pending

\* datetime.utcnow() moves on between any two steps.
Tick ==
    /\ \E t \in ClockTimes : t > clock /\ clock' = t
    /\ UNCHANGED <<pipeline_vars, call_vars>>

(***************************************************************************)
(* Direct calls of calculate_engagement_metrics                            *)
(***************************************************************************)
InitCalc ==
    /\ clock = TenHours
    /\ InitPipeline
    /\ arg_likes \in LikeCounts
    /\ arg_comments \in CommentCounts
    /\ arg_published \in PubTimes
    /\ calls = <<>>

Remember(call) ==
    IF Len(calls) < 2 THEN Append(calls, call) ELSE <<calls[2], call>>

CallWith(views) ==
    /\ \E v \in views :
         calls' = Remember(
             [view_count |-> v,
              at |-> clock,
              result |-> calculate_engagement_metrics(v, arg_likes, arg_comments,
                                                      arg_published, clock)])
    /\ UNCHANGED <<clock, pipeline_vars, arg_likes, arg_comments, arg_published>>

\* Calls with inputs that meet the preconditions.
Call == CallWith(ViewCounts)

NextCalc == Call \/ Tick

SpecCalc == InitCalc /\ [][NextCalc]_vars

\* Calls with inputs that may break the preconditions.
InitCalcAny ==
    /\ clock = TenHours
    /\ InitPipeline
    /\ arg_likes \in AnyLikeCounts
    /\ arg_comments \in AnyCommentCounts
    /\ arg_published \in AnyPubTimes
    /\ calls = <<>>

CallAny == CallWith(AnyViewCounts)

NextCalcAny == CallAny \/ Tick

SpecCalcAny == InitCalcAny /\ [][NextCalcAny]_vars

\* The last direct call, and the one before it.
HasCall == Len(calls) >= 1
HasTwoCalls == Len(calls) = 2
LastCall == calls[Len(calls)]
PrevCall == calls[1]

(***************************************************************************)
(* analyze_shorts                                                          *)
(***************************************************************************)
Init ==
    /\ clock = TenHours
    /\ InitPipeline
    /\ arg_likes = 0
    /\ arg_comments = 0
    /\ arg_published = 0
    /\ calls = <<>>

\* list.sort(key=performance_score, reverse=True): a stable sort, so records
\* of equal score keep the order they had.
RECURSIVE InsertDescending(_, _)
InsertDescending(sorted, r) ==
    IF sorted = <<>> THEN <<r>>
    ELSE IF Head(sorted).performance_score >= r.performance_score
         THEN <<Head(sorted)>> \o InsertDescending(Tail(sorted), r)
         ELSE <<r>> \o sorted

\* The sort done as an ascending sort followed by a reversal, which turns
\* the order of records of equal score around.
RECURSIVE InsertAscending(_, _)
InsertAscending(sorted, r) ==
    IF sorted = <<>> THEN <<r>>
    ELSE IF Head(sorted).performance_score <= r.performance_score
         THEN <<Head(sorted)>> \o InsertAscending(Tail(sorted), r)
         ELSE <<r>> \o sorted

RECURSIVE SortAscending(_)
SortAscending(data) ==
    IF data = <<>> THEN <<>>
    ELSE InsertAscending(SortAscending(SubSeq(data, 1, Len(data) - 1)), data[Len(data)])

sort_ascending_reversed(data) ==
    LET asc == SortAscending(data)
    IN  [i \in 1..Len(asc) |-> asc[Len(asc) + 1 - i]]

RECURSIVE sort_by_performance_score(_)
sort_by_performance_score(data) ==
    IF data = <<>> THEN <<>>
    ELSE InsertDescending(sort_by_performance_score(SubSeq(data, 1, Len(data) - 1)),
                          data[Len(data)])

\* The check made against a set nothing was added to.
already_seen_dropped(channel_id, seen) == channel_id \in (seen \ seen)

\* if channel_id in seen_channels: continue
already_seen(channel_id, seen) == channel_id \in seen

\* The video_data dictionary (title, channel_title, duration, category and
\* sort_method are copied through and left out).
video_data(item, response, metrics) ==
    [video_id |-> item.videoId,
     channel_id |-> item.channelId,
     view_count |-> GetCount(response.statistics, "viewCount"),
     like_count |-> GetCount(response.statistics, "likeCount"),
     comment_count |-> GetCount(response.statistics, "commentCount"),
     published_at |-> response.publishedAt,
     engagement_rate |-> metrics.engagement_rate,
     likes_to_views_ratio |-> metrics.likes_to_views_ratio,
     comments_to_views_ratio |-> metrics.comments_to_views_ratio,
     avg_views_per_hour |-> metrics.avg_views_per_hour,
     total_engagement |-> metrics.total_engagement,
     performance_score |-> metrics.performance_score]

\* search().list(...).execute() answers with one of the given responses; the
\* quota is charged for it.  Nothing is tested before the request is made.
SearchWith(responses) ==
    /\ pc = "idle"
    /\ \E items \in responses : search_items' = items
    /\ quota_used' = quota_used + QuotaSearch
    /\ shorts_data' = <<>>
    /\ seen_channels' = {}
    /\ idx' = 1
    /\ pc' = "loop"
    /\ UNCHANGED <<clock, video_responses, returned, call_vars>>

SearchOk == SearchWith(SearchResponses)

\* search().list(...).execute() raises HttpError: except HttpError, return None.
SearchHttpError ==
    /\ pc = "idle"
    /\ returned' = ReturnedNone
    /\ pc' = "returned"
    /\ UNCHANGED <<clock, quota_used, search_items, idx, seen_channels, shorts_data,
                   video_responses, call_vars>>

InLoop == pc = "loop" /\ idx <= Len(search_items)

\* The channel of this item was seen: continue (the quota check is skipped).
Skip ==
    /\ InLoop
    /\ already_seen(search_items[idx].channelId, seen_channels)
    /\ idx' = idx + 1
    /\ UNCHANGED <<clock, pc, quota_used, search_items, seen_channels, shorts_data,
                   video_responses, returned, call_vars>>

\* The end of an iteration that fetched a video: the quota check.
EndIteration ==
    /\ quota_used' = quota_used + QuotaVideo
    /\ IF quota_used + QuotaVideo >= max_quota
       THEN pc' = "break" /\ idx' = idx
       ELSE pc' = pc /\ idx' = idx + 1

Received(item, response) ==
    Append(video_responses, [video_id |-> item.videoId, response |-> response])

\* videos().list(...).execute() answers with a video and its statistics.
FetchOk ==
    /\ InLoop
    /\ ~already_seen(search_items[idx].channelId, seen_channels)
    /\ \E response \in OkResponses :
         LET item == search_items[idx]
             metrics == calculate_engagement_metrics(
                            GetCount(response.statistics, "viewCount"),
                            GetCount(response.statistics, "likeCount"),
                            GetCount(response.statistics, "commentCount"),
                            response.publishedAt, clock)
         IN  /\ video_responses' = Received(item, response)
             /\ seen_channels' = seen_channels \cup {item.channelId}
             /\ IF metrics.kind = "metrics"
                THEN /\ shorts_data' = Append(shorts_data, video_data(item, response, metrics))
                     /\ EndIteration
                     /\ UNCHANGED returned
                ELSE \* the call raised: except Exception, return None
                     /\ quota_used' = quota_used + QuotaVideo
                     /\ returned' = ReturnedNone
                     /\ pc' = "returned"
                     /\ UNCHANGED <<idx, shorts_data>>
    /\ UNCHANGED <<clock, search_items, call_vars>>

\* videos().list(...).execute() answers with no items: nothing is appended.
FetchNoItems ==
    /\ InLoop
    /\ ~already_seen(search_items[idx].channelId, seen_channels)
    /\ video_responses' = Received(search_items[idx], NoItemsResponse)
    /\ seen_channels' = seen_channels \cup {search_items[idx].channelId}
    /\ EndIteration
    /\ UNCHANGED <<clock, search_items, shorts_data, returned, call_vars>>

\* The item has no statistics: video_info['statistics'] raises KeyError,
\* except Exception, return None.
FetchNoStats ==
    /\ InLoop
    /\ ~already_seen(search_items[idx].channelId, seen_channels)
    /\ video_responses' = Received(search_items[idx], NoStatsResponse)
    /\ seen_channels' = seen_channels \cup {search_items[idx].channelId}
    /\ quota_used' = quota_used + QuotaVideo
    /\ returned' = ReturnedNone
    /\ pc' = "returned"
    /\ UNCHANGED <<clock, search_items, idx, shorts_data, call_vars>>

\* videos().list(...).execute() raises HttpError: except HttpError, return None.
FetchHttpError ==
    /\ InLoop
    /\ ~already_seen(search_items[idx].channelId, seen_channels)
    /\ seen_channels' = seen_channels \cup {search_items[idx].channelId}
    /\ returned' = ReturnedNone
    /\ pc' = "returned"
    /\ UNCHANGED <<clock, quota_used, search_items, idx, shorts_data, video_responses,
                   call_vars>>

\* The loop is over (exhausted or left by break): sort and return.
Return ==
    /\ \/ pc = "break"
       \/ pc = "loop" /\ idx > Len(search_items)
    /\ returned' = ReturnedList(sort_by_performance_score(shorts_data))
    /\ pc' = "returned"
    /\ UNCHANGED <<clock, quota_used, search_items, idx, seen_channels, shorts_data,
                   video_responses, call_vars>>

Next ==
    \/ SearchOk
    \/ SearchHttpError
    \/ Skip
    \/ FetchOk
    \/ FetchNoItems
    \/ FetchNoStats
    \/ FetchHttpError
    \/ Return
    \/ Tick

Spec == Init /\ [][Next]_vars

(***************************************************************************)
(* analyze_shorts called again and again on one analyzer                   *)
(***************************************************************************)
\* The search responses of the repeated calls: at most two videos, all of
\* one channel.
FewSearchResponses ==
    {items \in SearchResponses :
        /\ Len(items) <= 2
        /\ \A i \in 1..Len(items) : items[i].channelId = "UC_a"}

SearchFew == SearchWith(FewSearchResponses)

\* Where the repeated calls are cut off: two searches past max_quota.
QuotaCeiling == max_quota + 2 * QuotaSearch

\* analyze_shorts has returned and is called once more on the same analyzer:
\* its locals are new, self.quota_used is what the calls before left.
CallAgain ==
    /\ pc = "returned"
    /\ quota_used < QuotaCeiling
    /\ pc' = "idle"
    /\ search_items' = <<>>
    /\ idx' = 0
    /\ seen_channels' = {}
    /\ shorts_data' = <<>>
    /\ video_responses' = <<>>
    /\ returned' = Pending
    /\ UNCHANGED <<clock, quota_used, call_vars>>

\* The clock has no part in the quota and stands still here.
NextQuota ==
    \/ SearchFew
    \/ SearchHttpError
    \/ Skip
    \/ FetchOk
    \/ FetchNoItems
    \/ FetchNoStats
    \/ FetchHttpError
    \/ Return
    \/ CallAgain

SpecQuota == Init /\ [][NextQuota]_vars

(***************************************************************************)
(* Properties                                                              *)
(***************************************************************************)
\* The inputs of a direct call meet the stated preconditions: no negative
\* count, and published_at not later than the clock reading of the call.
ValidCall(call) ==
    /\ call.view_count >= 0
    /\ arg_likes >= 0
    /\ arg_comments >= 0
    /\ arg_published <= call.at

\* C1: a call with view_count = 0 returns engagement_rate, likes_to_views_ratio,
\* comments_to_views_ratio, avg_views_per_hour, total_engagement and
\* performance_score all equal to 0, whatever like_count, comment_count and
\* published_at are.
C1_ZeroViewFloor ==
    (HasCall /\ LastCall.view_count = 0) =>
        /\ LastCall.result.kind = "metrics"
        /\ LastCall.result.engagement_rate = Dec2Zero
        /\ LastCall.result.likes_to_views_ratio = Dec2Zero
        /\ LastCall.result.comments_to_views_ratio = Dec2Zero
        /\ LastCall.result.avg_views_per_hour = Dec2Zero
        /\ LastCall.result.total_engagement = 0
        /\ LastCall.result.performance_score = 0

\* The all-zero example: view_count 0 with 10 likes and 3 comments.
C1_Witness ==
    /\ HasCall
    /\ LastCall.view_count = 0
    /\ arg_likes = 10
    /\ arg_comments = 3
    /\ LastCall.result.total_engagement = 0
    /\ LastCall.result.performance_score = 0

\* C2: for valid inputs the call returns metrics whose performance_score is
\* between 0 and 100 (0 and 10000 hundredths).
C2_BoundedScore ==
    (HasCall /\ ValidCall(LastCall)) =>
        /\ LastCall.result.kind = "metrics"
        /\ LastCall.result.performance_score >= 0
        /\ LastCall.result.performance_score <= 100 * Percent

\* A valid call that reaches the upper bound: all three sub-scores capped.
C2_Witness ==
    /\ HasCall
    /\ ValidCall(LastCall)
    /\ LastCall.view_count > 0
    /\ LastCall.result.performance_score = 100 * Percent

\* The multiset of records of a list: how often r occurs in it.
Occurrences(list, r) == Cardinality({i \in 1..Len(list) : list[i] = r})

\* The place of the record of video v in the collected list.
CollectedAt(v) == CHOOSE j \in 1..Len(shorts_data) : shorts_data[j].video_id = v

\* C3: a list returned by analyze_shorts is a permutation of the collected
\* records, in descending order of performance_score, and records of equal
\* performance_score are in the order they were collected in.
C3_Ranking ==
    returned.kind = "list" =>
        LET out == returned.list
        IN  /\ Len(out) = Len(shorts_data)
            /\ \A j \in 1..Len(shorts_data) :
                   Occurrences(out, shorts_data[j]) = Occurrences(shorts_data, shorts_data[j])
            /\ \A i, j \in 1..Len(out) :
                   i < j => out[i].performance_score >= out[j].performance_score
            /\ \A i, j \in 1..Len(out) :
                   (i < j /\ out[i].performance_score = out[j].performance_score)
                       => CollectedAt(out[i].video_id) < CollectedAt(out[j].video_id)

\* Three records returned, two of them tied, and the sort moved a record.
C3_Witness ==
    /\ returned.kind = "list"
    /\ Len(returned.list) = 3
    /\ returned.list # shorts_data
    /\ returned.list[1].performance_score > returned.list[2].performance_score
    /\ returned.list[2].performance_score = returned.list[3].performance_score

\* Two direct calls made at one clock reading with valid inputs, the second
\* with the greater view_count (like_count, comment_count and published_at
\* are the same in both).
ViewsRaised ==
    /\ HasTwoCalls
    /\ PrevCall.at = LastCall.at
    /\ ValidCall(PrevCall)
    /\ ValidCall(LastCall)
    /\ PrevCall.view_count < LastCall.view_count

\* normalized_views rises strictly with view_count while it is below its cap
\* (the sub-score is computed for view_count > 0 only).
ViewsSubScoreRises ==
    (PrevCall.view_count > 0 /\ normalized_views(PrevCall.view_count) < Micro)
        => normalized_views(PrevCall.view_count) < normalized_views(LastCall.view_count)

\* C4 as stated: with like_count, comment_count, published_at and the clock
\* fixed, a greater view_count gives a strictly greater normalized_views while
\* below the cap, and a performance_score that is not smaller.
C4_Monotonicity ==
    ViewsRaised =>
        /\ ViewsSubScoreRises
        /\ PrevCall.result.performance_score <= LastCall.result.performance_score

\* C4 as amended: a greater view_count gives a strictly greater
\* normalized_views while below the cap; the performance_score is not smaller
\* when like_count + comment_count = 0 (otherwise normalized_engagement, which
\* divides by view_count, falls and the score can fall with it).
C4_MonotonicityAmended ==
    ViewsRaised =>
        /\ ViewsSubScoreRises
        /\ (arg_likes + arg_comments = 0
               => PrevCall.result.performance_score <= LastCall.result.performance_score)

\* Views raised from a positive count with no likes or comments: the score rose.
C4_Witness ==
    /\ ViewsRaised
    /\ PrevCall.view_count > 0
    /\ arg_likes + arg_comments = 0
    /\ normalized_views(PrevCall.view_count) < normalized_views(LastCall.view_count)
    /\ PrevCall.result.performance_score < LastCall.result.performance_score

ClockFreeMetricsEqual ==
    /\ PrevCall.result.kind = LastCall.result.kind
    /\ PrevCall.result.engagement_rate = LastCall.result.engagement_rate
    /\ PrevCall.result.likes_to_views_ratio = LastCall.result.likes_to_views_ratio
    /\ PrevCall.result.comments_to_views_ratio = LastCall.result.comments_to_views_ratio
    /\ PrevCall.result.total_engagement = LastCall.result.total_engagement

C6_InvalidRejected ==
    (HasCall /\ ~ValidCall(LastCall)) => LastCall.result.kind # "metrics"

\* The videos().list response of a received video lacks data: no items, no
\* statistics, or a counter missing from the statistics.
LacksData(response) ==
    \/ response.kind \in {"noitems", "nostats"}
    \/ /\ response.kind = "ok"
       /\ \E key \in {"viewCount", "likeCount", "commentCount"} :
              response.statistics[key] = Absent

\* The run ended on an HttpError (or on a raising metrics call): it returned
\* None though every response received held an item with statistics.
EndedOnError ==
    /\ returned.kind = "None"
    /\ \A k \in 1..Len(video_responses) : video_responses[k].response.kind # "nostats"

\* The returned list holds a fully scored record for received video k, with 0
\* in place of every counter its statistics lack.
ScoredInReturned(k) ==
    LET v == video_responses[k].video_id
        response == video_responses[k].response
    IN  \E i \in 1..Len(returned.list) :
            /\ returned.list[i].video_id = v
            /\ returned.list[i].view_count = GetCount(response.statistics, "viewCount")
            /\ returned.list[i].like_count = GetCount(response.statistics, "likeCount")
            /\ returned.list[i].comment_count = GetCount(response.statistics, "commentCount")
            /\ {"engagement_rate", "likes_to_views_ratio", "comments_to_views_ratio",
                "avg_views_per_hour", "total_engagement", "performance_score"}
                   \subseteq DOMAIN returned.list[i]

\* C7: when a run that met no HttpError has returned and some response lacked
\* data, a video without items or statistics has no record in what is
\* returned, and every other received video has its record there, scored, with
\* 0 for each missing counter.
C7_MissingDataContained ==
    (/\ pc = "returned"
     /\ ~EndedOnError
     /\ \E k \in 1..Len(video_responses) : LacksData(video_responses[k].response))
        => \A k \in 1..Len(video_responses) :
               IF video_responses[k].response.kind = "ok"
               THEN ScoredInReturned(k)
               ELSE \A i \in 1..Len(returned.list) :
                        returned.list[i].video_id # video_responses[k].video_id

\* The first item of the search response that is of channel c.
FirstOfChannel(c) ==
    CHOOSE k \in 1..Len(search_items) :
        /\ search_items[k].channelId = c
        /\ \A m \in 1..(k - 1) : search_items[m].channelId # c

\* C8: in a returned list no two records share a channel_id, and each record
\* is for the first video of its channel in the search response.
C8_ChannelDedup ==
    returned.kind = "list" =>
        LET out == returned.list
        IN  /\ \A i, j \in 1..Len(out) : i # j => out[i].channel_id # out[j].channel_id
            /\ \A i \in 1..Len(out) :
                   out[i].video_id = search_items[FirstOfChannel(out[i].channel_id)].videoId

\* Two records returned from a search response that held a second video of
\* the channel of one of them.
C8_Witness ==
    /\ returned.kind = "list"
    /\ Len(returned.list) = 2
    /\ \E k \in 1..Len(search_items) :
           /\ search_items[k].channelId = returned.list[1].channel_id
           /\ search_items[k].videoId # returned.list[1].video_id

\* C9: for view_count > 0 and a clock reading less than one hour after
\* published_at, hours_since_pub is floored to one hour and avg_views_per_hour
\* equals view_count.
C9_HourFloor ==
    (/\ HasCall
     /\ LastCall.view_count > 0
     /\ LastCall.at >= arg_published
     /\ LastCall.at - arg_published < TicksPerHour)
        => /\ hours_since_pub(arg_published, LastCall.at) = TicksPerHour
           /\ LastCall.result.kind = "metrics"
           /\ LastCall.result.avg_views_per_hour = Dec2Of(LastCall.view_count, 0)

\* published_at equal to the clock reading: hours is 1, nothing divides by 0.
C9_Witness ==
    /\ HasCall
    /\ LastCall.view_count = 1000
    /\ LastCall.at = arg_published
    /\ LastCall.result.kind = "metrics"
    /\ LastCall.result.avg_views_per_hour = Dec2Of(1000, 0)

\* The worked example: 1,000,000 views, 50,000 likes, 5,000 comments, called
\* exactly ten hours after published_at.
WorkedExample ==
    /\ HasCall
    /\ LastCall.view_count = 1000000
    /\ arg_likes = 50000
    /\ arg_comments = 5000
    /\ LastCall.at - arg_published = TenHours

\* The metrics and sub-scores of the worked example other than the score:
\* engagement_rate 5.5, avg_views_per_hour 100000.0, total_engagement 55000,
\* sub-scores 0.75 (to a millionth), 0.275 and 1.0.
WorkedExampleMetrics ==
    /\ LastCall.result.kind = "metrics"
    /\ LastCall.result.engagement_rate = Dec2Of(5, 50)
    /\ LastCall.result.avg_views_per_hour = Dec2Of(100000, 0)
    /\ LastCall.result.total_engagement = 55000
    /\ normalized_views(LastCall.view_count) = 750000
    /\ normalized_engagement(LastCall.view_count, LastCall.result.total_engagement) = 275000
    /\ normalized_velocity(LastCall.view_count,
                           hours_since_pub(arg_published, LastCall.at)) = Micro

\* C10 as stated: the worked example has performance_score 59.25.
C10_WorkedExample ==
    WorkedExample => (WorkedExampleMetrics /\ LastCall.result.performance_score = 5925)

\* C10 as amended: the worked example has performance_score 68.25.
C10_WorkedExampleAmended ==
    WorkedExample => (WorkedExampleMetrics /\ LastCall.result.performance_score = 6825)

\* The call of the worked example was made and returned metrics.
C10_Witness ==
    WorkedExample /\ LastCall.result.kind = "metrics"

\* C11: over any sequence of analyze_shorts calls on one analyzer no request
\* is made while quota_used >= max_quota, so quota_used never exceeds
\* max_quota.
C11_QuotaBudget == quota_used <= max_quota

====
